---- MODULE Spec2Model ----
(***************************************************************************)
(* Model of the template_update Home Assistant integration:                *)
(*   custom_components/template_update/__init__.py  (configuration loader) *)
(*   custom_components/template_update/update.py    (TemplateUpdateEntity) *)
(*                                                                         *)
(* Python strings are sequences of tokens.  A token is either a piece of   *)
(* plain text or a template expression ("{{state}}", "{{bad}}", ...), so   *)
(* rendering, str(), truthiness and str.split are computed on the text.    *)
(* Python values are records [t |-> type, s |-> text] (dicts and lists     *)
(* carry their contents in a further field).                               *)
(***************************************************************************)
EXTENDS Integers, Sequences, FiniteSets, TLC

VARIABLES
    hass_config,    \* the validated configuration: DOMAIN |-> list of blocks
    hostState,      \* the host state the templates refer to
    setup,          \* the run of async_setup: status, return value, logs
    constructions,  \* every TemplateUpdateEntity(hass, config) attempted
    discovery,      \* the discovery.async_load_platform calls made
    lastOp          \* the last accessor read or async_install the host made

vars == <<hass_config, hostState, setup, constructions, discovery, lastOp>>

\* Bounds of the model.
MaxBlocks == 2
MaxElements == 2

\* const.py

DOMAIN_NAME == <<"template_update">>
CONF_NAME == "name"
CONF_INSTALLED_VERSION == "installed_version"
CONF_LATEST_VERSION == "latest_version"
CONF_RELEASE_NOTES == "release_notes"
CONF_TITLE == "title"
CONF_ENTITY_PICTURE == "entity_picture"
CONF_DEVICE_CLASS == "device_class"
CONF_AVAILABILITY == "availability"
CONF_FOR_EACH == "for_each"
CONF_UPDATE == "update"
CONF_INSTALL_ACTION == "install_action"
CONF_AUTO_UPDATE == "auto_update"
\* __init__.py imports CONF_ELEMENTS from const.py, which does not define it;
\* the key is the one the configuration surface names
CONF_ELEMENTS == "elements"

\* Python values

StrV(s) == [t |-> "str", s |-> s]
IntV(s) == [t |-> "int", s |-> s]
BoolV(b) == [t |-> "bool", s |-> IF b THEN <<"True">> ELSE <<"False">>]
NoneV == [t |-> "None", s |-> <<"None">>]
DictV(d) == [t |-> "dict", s |-> <<>>, d |-> d]
ListV(l) == [t |-> "list", s |-> <<>>, items |-> l]

EmptyDict == [k \in {} |-> NoneV]

\* str(v) for the scalar values
PyStr(v) == StrV(v.s)

\* the truth value of v (bool(v), `if v`, `v or ...`)
PyTruthy(v) ==
    CASE v.t = "str" -> v.s # <<>>
      [] v.t = "int" -> v.s # <<"0">>
      [] v.t = "bool" -> v.s = <<"True">>
      [] v.t = "None" -> FALSE
      [] v.t = "dict" -> DOMAIN v.d # {}
      [] v.t = "list" -> v.items # <<>>

\* d.get(key), with None for a missing key
DictGet(d, key) == IF key \in DOMAIN d THEN d[key] ELSE NoneV

\* {**d, **e}: d overlaid by e
DictUpdate(d, e) ==
    [k \in DOMAIN d \cup DOMAIN e |-> IF k \in DOMAIN e THEN e[k] ELSE d[k]]

Digits == {"0", "1", "2", "7"}

\* The host's template engine (homeassistant.helpers.template.Template)

Ok(v) == [k |-> "ok", v |-> v]
Raise(exc) == [k |-> "raise", exc |-> exc]

NoVars == [k \in {} |-> EmptyDict]

\* the text one token renders to, or a failure
ExprText(tok, hs, tvars) ==
    CASE tok = "{{state}}" -> [ok |-> TRUE, s |-> hs]
      [] tok = "{{bad}}" -> [ok |-> FALSE, s |-> <<>>]
      [] tok = "{{item.device_id}}" ->
            IF "item" \notin DOMAIN tvars THEN [ok |-> FALSE, s |-> <<>>]
            ELSE IF "device_id" \in DOMAIN tvars["item"]
                 THEN [ok |-> TRUE, s |-> tvars["item"]["device_id"].s]
                 ELSE [ok |-> TRUE, s |-> <<>>]
      [] tok = "{{item.device_id|int}}" ->
            IF /\ "item" \in DOMAIN tvars
               /\ "device_id" \in DOMAIN tvars["item"]
               /\ tvars["item"]["device_id"].s # <<>>
               /\ \A i \in DOMAIN tvars["item"]["device_id"].s :
                      tvars["item"]["device_id"].s[i] \in Digits
            THEN [ok |-> TRUE, s |-> tvars["item"]["device_id"].s]
            ELSE [ok |-> FALSE, s |-> <<>>]
      [] OTHER -> [ok |-> TRUE, s |-> <<tok>>]

RECURSIVE RenderText(_, _, _)
RenderText(s, hs, tvars) ==
    IF s = <<>> THEN [ok |-> TRUE, s |-> <<>>]
    ELSE LET h == ExprText(Head(s), hs, tvars)
             r == RenderText(Tail(s), hs, tvars)
         IN IF h.ok /\ r.ok THEN [ok |-> TRUE, s |-> h.s \o r.s]
            ELSE [ok |-> FALSE, s |-> <<>>]

\* the renderer returns native types: a rendered text that is a Python
\* literal comes back as that literal
ParseResult(s) ==
    IF s # <<>> /\ \A i \in DOMAIN s : s[i] \in Digits THEN IntV(s)
    ELSE IF s = <<"True">> THEN BoolV(TRUE)
    ELSE IF s = <<"False">> THEN BoolV(FALSE)
    ELSE IF s = <<"None">> THEN NoneV
    ELSE StrV(s)

\* Template(s, hass).async_render(tvars): a value, or TemplateError
async_render(s, hs, tvars) ==
    LET r == RenderText(s, hs, tvars)
    IN IF r.ok THEN Ok(ParseResult(r.s)) ELSE Raise("TemplateError")

\* update.py: TemplateUpdateEntity

INSTALL == "INSTALL"
SPECIFIC_VERSION == "SPECIFIC_VERSION"
RELEASE_NOTES == "RELEASE_NOTES"

Template(s) == [t |-> "Template", s |-> s]
NODEF == [t |-> "str", s |-> <<"<NODEF>">>]

\* the result of a call: a returned value or a raised exception, with the
\* levels of the log records written and the service calls dispatched
Return(v, logs) == [k |-> "return", v |-> v, exc |-> "", logs |-> logs]
Raised(exc, logs) == [k |-> "raise", v |-> NoneV, exc |-> exc, logs |-> logs]

\* __init__.config_template: the template of a key, the default, or ValueError
config_template(config, key, default) ==
    IF key \in DOMAIN config
    THEN Ok(Template(PyStr(IF PyTruthy(config[key]) THEN config[key]
                           ELSE StrV(<<>>)).s))
    ELSE IF default = NODEF THEN Raise("ValueError")
    ELSE Ok(default)

\* the supported features __init__ derives from the configuration
supported_features_always_install(config) ==
    {INSTALL, SPECIFIC_VERSION}
    \cup (IF PyTruthy(DictGet(config, CONF_RELEASE_NOTES))
          THEN {RELEASE_NOTES} ELSE {})

supported_features(config) ==
    (IF PyTruthy(DictGet(config, CONF_INSTALL_ACTION))
     THEN {INSTALL, SPECIFIC_VERSION} ELSE {})
    \cup (IF PyTruthy(DictGet(config, CONF_RELEASE_NOTES))
          THEN {RELEASE_NOTES} ELSE {})

\* __init__ once the six templates are known: the first exception raised
\* setting them up, or the entity
entity_of(config, iv, lv, rn, ti, ep, av) ==
    IF iv.k = "raise" THEN iv
    ELSE IF lv.k = "raise" THEN lv
    ELSE IF rn.k = "raise" THEN rn
    ELSE IF ti.k = "raise" THEN ti
    ELSE IF ep.k = "raise" THEN ep
    ELSE IF av.k = "raise" THEN av
    ELSE Ok([config |-> config,
             attr_name |-> DictGet(config, CONF_NAME),
             attr_unique_id |-> DictGet(config, CONF_NAME),
             attr_supported_features |-> supported_features(config),
             attr_auto_update |->
                 IF CONF_AUTO_UPDATE \in DOMAIN config
                 THEN config[CONF_AUTO_UPDATE] ELSE BoolV(FALSE),
             installed_version_template |-> iv.v,
             latest_version_template |-> lv.v,
             release_notes_template |-> rn.v,
             title_template |-> ti.v,
             entity_pic_template |-> ep.v,
             availability_template |-> av.v,
             install_action |->
                 IF CONF_INSTALL_ACTION \in DOMAIN config
                 THEN config[CONF_INSTALL_ACTION] ELSE DictV(EmptyDict),
             attr_device_class |->
                 IF PyTruthy(DictGet(config, CONF_DEVICE_CLASS))
                 THEN config[CONF_DEVICE_CLASS] ELSE NoneV])

\* TemplateUpdateEntity(hass, config): the entity, or the exception raised
TemplateUpdateEntity(config) ==
    entity_of(config,
              config_template(config, CONF_INSTALLED_VERSION, NODEF),
              config_template(config, CONF_LATEST_VERSION, NODEF),
              config_template(config, CONF_RELEASE_NOTES, NoneV),
              config_template(config, CONF_TITLE, NoneV),
              config_template(config, CONF_ENTITY_PICTURE, NoneV),
              config_template(config, CONF_AVAILABILITY, NoneV))

\* the body the string accessors share:
\*   try: x = str(template.async_render())
\*   except (ValueError, TypeError): log; return None
StrAccessor(template, hs) ==
    LET r == async_render(template.s, hs, NoVars)
    IN IF r.k = "ok" THEN Return(PyStr(r.v), {})
       ELSE IF r.exc \in {"ValueError", "TypeError"}
            THEN Return(NoneV, {"exception"})
       ELSE Raised(r.exc, {})

installed_version(self, hs) == StrAccessor(self.installed_version_template, hs)

latest_version(self, hs) == StrAccessor(self.latest_version_template, hs)

release_notes(self, hs) ==
    IF self.release_notes_template = NoneV THEN Return(NoneV, {})
    ELSE StrAccessor(self.release_notes_template, hs)

title(self, hs) ==
    IF self.title_template = NoneV THEN Return(NoneV, {})
    ELSE StrAccessor(self.title_template, hs)

entity_picture(self, hs) ==
    IF self.entity_pic_template = NoneV THEN Return(NoneV, {})
    ELSE StrAccessor(self.entity_pic_template, hs)

available(self, hs) ==
    IF self.availability_template = NoneV THEN Return(BoolV(TRUE), {})
    ELSE LET r == async_render(self.availability_template.s, hs, NoVars)
         IN IF r.k = "ok" THEN Return(BoolV(PyTruthy(r.v)), {})
            ELSE IF r.exc \in {"ValueError", "TypeError"}
                 THEN Return(BoolV(FALSE), {"exception"})
            ELSE Raised(r.exc, {})

\* _render_template: None for an empty string and for a TemplateError
render_template(template_str, hs) ==
    IF ~PyTruthy(template_str) THEN NoneV
    ELSE LET r == async_render(template_str.s, hs, NoVars)
         IN IF r.k = "ok" THEN r.v ELSE NoneV

\* whether _render_template logs an exception for this string
render_template_logs(template_str, hs) ==
    /\ PyTruthy(template_str)
    /\ async_render(template_str.s, hs, NoVars).k = "raise"

\* _render_dict_templates: render every string leaf, depth first
RECURSIVE render_dict_templates(_, _)
render_dict_templates(data, hs) ==
    CASE data.t = "dict" ->
            DictV([key \in DOMAIN data.d |-> render_dict_templates(data.d[key], hs)])
      [] data.t = "list" ->
            ListV([i \in DOMAIN data.items |->
                       render_dict_templates(data.items[i], hs)])
      [] data.t = "str" -> render_template(data, hs)
      [] OTHER -> data

RECURSIVE render_dict_logs(_, _)
render_dict_logs(data, hs) ==
    CASE data.t = "dict" ->
            \E key \in DOMAIN data.d : render_dict_logs(data.d[key], hs)
      [] data.t = "list" ->
            \E i \in DOMAIN data.items : render_dict_logs(data.items[i], hs)
      [] data.t = "str" -> render_template_logs(data, hs)
      [] OTHER -> FALSE

\* s.split(".", 1)
RECURSIVE FirstDot(_, _)
FirstDot(s, i) ==
    IF i > Len(s) THEN 0
    ELSE IF s[i] = "." THEN i
    ELSE FirstDot(s, i + 1)

Split1(s) ==
    LET i == FirstDot(s, 1)
    IN IF i = 0 THEN <<s>>
       ELSE <<SubSeq(s, 1, i - 1), SubSeq(s, i + 1, Len(s))>>

\* the payload of the service call: {version, backup, **kwargs} updated
\* with the rendered data
install_data_kwargs_win(version, should_backup, kwargs, rendered) ==
    DictUpdate(DictUpdate(rendered,
                          [k \in {"version", "backup"} |->
                              IF k = "version" THEN version
                              ELSE BoolV(should_backup)]),
               kwargs)

install_data(version, should_backup, kwargs, rendered) ==
    DictUpdate(DictUpdate([k \in {"version", "backup"} |->
                              IF k = "version" THEN version
                              ELSE BoolV(should_backup)],
                          kwargs),
               rendered)

\* async_install: the result and the service calls dispatched; callOk is the
\* outcome of hass.services.async_call
async_install(self, version, should_backup, kwargs, hs, callOk) ==
    LET install_action == DictGet(self.config, CONF_INSTALL_ACTION)
    IN IF install_action = NoneV
       THEN [res |-> Return(NoneV, {"warning"}), calls |-> <<>>]
       ELSE
       LET action == render_template(install_action.d["action"], hs)
           alog == IF render_template_logs(install_action.d["action"], hs)
                   THEN {"exception"} ELSE {}
       IN IF ~PyTruthy(action)
          THEN [res |-> Return(NoneV, alog \cup {"error"}), calls |-> <<>>]
          ELSE
          LET template_data == IF "data" \in DOMAIN install_action.d
                               THEN install_action.d["data"]
                               ELSE DictV(EmptyDict)
              rendered_data == render_dict_templates(template_data, hs)
              dlog == IF render_dict_logs(template_data, hs)
                      THEN {"exception"} ELSE {}
          IN IF rendered_data.t # "dict"
             THEN [res |-> Return(NoneV, alog \cup dlog \cup {"error"}),
                   calls |-> <<>>]
             ELSE IF action.t # "str"
             THEN [res |-> Raised("AttributeError", alog \cup dlog),
                   calls |-> <<>>]
             ELSE
             LET parts == Split1(action.s)
                 data == install_data(version, should_backup, kwargs,
                                      rendered_data.d)
             IN IF Len(parts) # 2
                THEN [res |-> Raised("ValueError", alog \cup dlog),
                      calls |-> <<>>]
                ELSE [res |-> IF callOk THEN Return(NoneV, alog \cup dlog)
                              ELSE Raised("ServiceNotFound", alog \cup dlog),
                      calls |-> <<[domain |-> parts[1],
                                   service |-> parts[2],
                                   data |-> data]>>]

\* __init__.py: the configuration loader

\* _render_template_value: the rendered value, None on any exception
render_template_value(value, template_vars, hs) ==
    LET r == async_render(value.s, hs, template_vars)
    IN IF r.k = "ok" THEN r.v ELSE NoneV

\* _process_template_config: string values rendered (dropped when the
\* result is None), the other values copied
process_template_config(update_template, template_vars, hs) ==
    LET rendered(key) ==
            render_template_value(update_template[key], template_vars, hs)
        kept == {key \in DOMAIN update_template :
                    update_template[key].t = "str" => rendered(key) # NoneV}
    IN [key \in kept |->
            IF update_template[key].t = "str" THEN rendered(key)
            ELSE update_template[key]]

\* whether _process_template_config logs a rendering exception
process_template_logs(update_template, template_vars, hs) ==
    \E key \in DOMAIN update_template :
        /\ update_template[key].t = "str"
        /\ async_render(update_template[key].s, hs, template_vars).k = "raise"

\* the configuration _create_entity_from_config constructs the entity from
entity_config_named(entity_config, item_id) ==
    IF PyTruthy(item_id) /\ CONF_NAME \notin DOMAIN entity_config
    THEN [key \in DOMAIN entity_config \cup {CONF_NAME} |->
            IF key = CONF_NAME
            THEN StrV(DOMAIN_NAME \o <<"_">> \o PyStr(item_id).s)
            ELSE entity_config[key]]
    ELSE entity_config

\* _create_entity_from_config
create_entity_from_config(entity_config, item_id) ==
    TemplateUpdateEntity(entity_config_named(entity_config, item_id))

\* The result of a loop that constructs entities: the entities made, every
\* construction attempted (cons), the log levels written, and whether an
\* exception ended it.
LoopResult(k, entities, cons, logs) ==
    [k |-> k, entities |-> entities, cons |-> cons, logs |-> logs]

Construction(b, i, config, r) ==
    [block |-> b, item |-> i, config |-> config, k |-> r.k]

\* one pass of a loop body that constructs an entity, followed by the rest
\* of the loop: an exception ends the loop
loop_step(con, entity, logs, rest) ==
    IF entity.k = "raise" THEN LoopResult("raise", <<>>, <<con>>, logs)
    ELSE LoopResult(rest.k, <<entity.v>> \o rest.entities,
                    <<con>> \o rest.cons, logs \cup rest.logs)

\* the body of the loop of _process_for_each_config for element i
for_each_item(b, i, entity_config, logs, item_id, rest) ==
    loop_step(Construction(b, i, entity_config_named(entity_config, item_id),
                           create_entity_from_config(entity_config, item_id)),
              create_entity_from_config(entity_config, item_id),
              IF logs THEN {"exception"} ELSE {}, rest)

\* the same loop with the loop variable bound to the first element
RECURSIVE process_for_each_config_first_item(_, _, _, _, _)
process_for_each_config_first_item(b, loop_elements, update_template, hs, i) ==
    IF i > Len(loop_elements) THEN LoopResult("ok", <<>>, <<>>, {})
    ELSE for_each_item(
            b, i,
            process_template_config(update_template,
                                    [v \in {"item"} |-> loop_elements[1]], hs),
            process_template_logs(update_template,
                                  [v \in {"item"} |-> loop_elements[1]], hs),
            DictGet(loop_elements[i], "device_id"),
            process_for_each_config_first_item(b, loop_elements, update_template,
                                               hs, i + 1))

\* _process_for_each_config, from element i on (b is the block's index)
RECURSIVE process_for_each_config(_, _, _, _, _)
process_for_each_config(b, loop_elements, update_template, hs, i) ==
    IF i > Len(loop_elements) THEN LoopResult("ok", <<>>, <<>>, {})
    ELSE for_each_item(
            b, i,
            process_template_config(update_template,
                                    [v \in {"item"} |-> loop_elements[i]], hs),
            process_template_logs(update_template,
                                  [v \in {"item"} |-> loop_elements[i]], hs),
            DictGet(loop_elements[i], "device_id"),
            process_for_each_config(b, loop_elements, update_template, hs, i + 1))

\* a block's entities followed by those of the blocks after it
blocks_step(this, rest) ==
    IF this.k = "raise" THEN this
    ELSE LoopResult(rest.k, this.entities \o rest.entities,
                    this.cons \o rest.cons, this.logs \cup rest.logs)

\* the loop of async_setup over the blocks, from block b on
RECURSIVE setup_blocks(_, _, _)
setup_blocks(domain_config, hs, b) ==
    IF b > Len(domain_config) THEN LoopResult("ok", <<>>, <<>>, {})
    ELSE blocks_step(
            IF CONF_FOR_EACH \in DOMAIN domain_config[b]
            THEN process_for_each_config(
                    b, domain_config[b][CONF_FOR_EACH][CONF_ELEMENTS],
                    domain_config[b][CONF_FOR_EACH][CONF_UPDATE], hs, 1)
            ELSE loop_step(Construction(b, 0, domain_config[b],
                               create_entity_from_config(domain_config[b], NoneV)),
                           create_entity_from_config(domain_config[b], NoneV),
                           {}, LoopResult("ok", <<>>, <<>>, {})),
            setup_blocks(domain_config, hs, b + 1))

\* _load_entities: the discovery calls made and the log levels written;
\* loadOk is the outcome of discovery.async_load_platform
load_entities(entities, loadOk) ==
    IF entities = <<>> THEN [calls |-> <<>>, logs |-> {"warning"}]
    ELSE [calls |-> <<[platform |-> "update", entities |-> entities,
                       ok |-> loadOk]>>,
          logs |-> IF loadOk THEN {} ELSE {"exception"}]

\* The inputs: configurations that pass CONFIG_SCHEMA

V1 == <<"1.0.0">>
V2 == <<"2.0.0">>
HostStates == {V1, V2}

Dict1(k1, v1) == [k \in {k1} |-> v1]
Dict2(k1, v1, k2, v2) == [k \in {k1, k2} |-> IF k = k1 THEN v1 ELSE v2]

\* install_action descriptors (ACTION_SCHEMA: action required, data optional)
IA_ok ==
    DictV(Dict2("action", StrV(<<"d", ".", "s">>),
                "data", DictV([k \in {"version", "extra", "tags", "opts"} |->
                    CASE k = "version" -> StrV(<<"{{state}}">>)
                      [] k = "extra" -> StrV(<<"{{bad}}">>)
                      [] k = "tags" -> ListV(<<StrV(<<"pre-", "{{state}}">>),
                                               IntV(<<"7">>), StrV(<<>>)>>)
                      [] k = "opts" -> DictV(Dict1("channel", StrV(<<"{{state}}">>)))])))
IA_nodata == DictV(Dict1("action", StrV(<<"d", ".", "s">>)))
IA_nodot == DictV(Dict1("action", StrV(<<"d", "s">>)))
IA_two_dots ==
    DictV(Dict2("action", StrV(<<"a", ".", "b", ".", "c">>),
                "data", DictV(Dict1("backup", BoolV(FALSE)))))
IA_bad == DictV(Dict1("action", StrV(<<"{{bad}}">>)))
IA_int == DictV(Dict1("action", StrV(<<"7">>)))

InstallActions == {IA_ok, IA_nodata, IA_nodot, IA_two_dots, IA_bad, IA_int}

\* the optional string fields of an entity descriptor
OptNone == EmptyDict
OptGood ==
    [k \in {CONF_RELEASE_NOTES, CONF_TITLE, CONF_ENTITY_PICTURE,
            CONF_AVAILABILITY, CONF_DEVICE_CLASS} |->
        CASE k = CONF_RELEASE_NOTES -> StrV(<<"notes ", "{{state}}">>)
          [] k = CONF_TITLE -> StrV(<<"Title">>)
          [] k = CONF_ENTITY_PICTURE -> StrV(<<"/local/pic.png">>)
          [] k = CONF_AVAILABILITY -> StrV(<<"True">>)
          [] k = CONF_DEVICE_CLASS -> StrV(<<"firmware">>)]
OptBad ==
    [k \in {CONF_RELEASE_NOTES, CONF_TITLE, CONF_ENTITY_PICTURE,
            CONF_AVAILABILITY} |-> StrV(<<"{{bad}}">>)]
OptOff == Dict1(CONF_AVAILABILITY, StrV(<<>>))

\* a flat entity descriptor (TEMPLATE_UPDATE_ITEM_SCHEMA: name,
\* installed_version and latest_version required, auto_update defaulted)
ItemConfig(name, iv, lv, opt, ia) ==
    DictUpdate(
        DictUpdate([k \in {CONF_NAME, CONF_INSTALLED_VERSION,
                           CONF_LATEST_VERSION, CONF_AUTO_UPDATE} |->
                       CASE k = CONF_NAME -> StrV(name)
                         [] k = CONF_INSTALLED_VERSION -> StrV(iv)
                         [] k = CONF_LATEST_VERSION -> StrV(lv)
                         [] k = CONF_AUTO_UPDATE -> BoolV(FALSE)],
                   opt),
        IF ia = NoneV THEN EmptyDict ELSE Dict1(CONF_INSTALL_ACTION, ia))

\* (installed_version, latest_version) pairs and (optional fields,
\* install_action) pairs of the flat descriptors
VersionPairs ==
    {<<V1, V2>>, <<<<"{{state}}">>, V2>>, <<<<"{{bad}}">>, <<"{{state}}">>>>,
     <<<<"2">>, <<"{{bad}}">>>>}
Profiles ==
    {<<OptNone, NoneV>>, <<OptGood, IA_ok>>, <<OptBad, IA_nodot>>,
     <<OptOff, IA_two_dots>>, <<OptNone, IA_bad>>, <<OptNone, IA_int>>,
     <<OptGood, IA_nodata>>}

ItemConfigs ==
    {ItemConfig(<<"router">>, vp[1], vp[2], pr[1], pr[2]) :
        vp \in VersionPairs, pr \in Profiles}

\* the entity templates of for_each blocks
UpdateTemplates ==
    { ItemConfig(<<"device_", "{{item.device_id}}">>, V1, <<"{{state}}">>,
                 OptNone, IA_nodata),
      ItemConfig(<<"{{bad}}">>, V1, V2, OptGood, NoneV),
      ItemConfig(<<"device_", "{{item.device_id}}">>, <<"{{item.device_id|int}}">>,
                 V2, OptBad, IA_ok),
      ItemConfig(<<"{{item.device_id}}">>, V1, <<"{{bad}}">>, OptNone, NoneV) }

\* the elements of for_each blocks ([dict])
Elements ==
    {Dict1("device_id", StrV(<<"a">>)), Dict1("device_id", StrV(<<"7">>)), EmptyDict}

SeqsUpTo(S, n) == UNION {[1..m -> S] : m \in 0..n}

\* a block of the list: an entity descriptor, or {for_each: {elements, update}}
ItemBlock(cfg) == cfg
ForEachBlock(elements, update) ==
    Dict1(CONF_FOR_EACH, [k \in {CONF_ELEMENTS, CONF_UPDATE} |->
                             IF k = CONF_ELEMENTS THEN elements ELSE update])

ForEachBlocksOver(elements) ==
    {ForEachBlock(els, u) : els \in SeqsUpTo(elements, MaxElements),
                            u \in UpdateTemplates}

ForEachBlocks == ForEachBlocksOver(Elements)

\* the blocks the setup runs are checked on: lists of a few plain blocks,
\* one of which may be replaced by any for_each block
SetupItemConfigs ==
    {ItemConfig(<<"router">>, V1, <<"{{state}}">>, OptNone, ia) :
        ia \in {IA_ok, NoneV}}

PlainBlocks ==
    {ItemBlock(c) : c \in SetupItemConfigs}
    \cup {ForEachBlock(<<Dict1("device_id", StrV(<<"a">>))>>, u) :
            u \in UpdateTemplates}

NoDomain == [k \in {} |-> <<>>]
WithDomain(domain_config) == [k \in {DOMAIN_NAME} |-> domain_config]

\* the adapters the host polls: those of a discovery call that succeeded
Registered ==
    IF discovery # <<>> /\ discovery[1].ok THEN discovery[1].entities ELSE <<>>

NoOp == [op |-> "none"]

TypeOK ==
    /\ hostState \in HostStates
    /\ setup.status \in {"pending", "returned", "raised"}
    /\ Len(discovery) <= 1
    /\ lastOp.op \in {"none", "read", "install"}

InitCommon ==
    /\ hostState \in HostStates
    /\ setup = [status |-> "pending"]
    /\ constructions = <<>>
    /\ discovery = <<>>
    /\ lastOp = NoOp

\* one block: the entities the host then reads and installs
Init ==
    /\ \E b \in {ItemBlock(c) : c \in ItemConfigs}
                \cup ForEachBlocksOver({e \in Elements : e # EmptyDict}) :
          hass_config = WithDomain(<<b>>)
    /\ InitCommon

\* no configuration of the domain at all, or a list of plain blocks one of
\* which may be replaced by any for_each block
InitSetup ==
    /\ \/ hass_config = NoDomain
       \/ \E bs \in SeqsUpTo(PlainBlocks, MaxBlocks) :
             \/ hass_config = WithDomain(bs)
             \/ \E i \in DOMAIN bs, fb \in ForEachBlocks :
                   hass_config = WithDomain([bs EXCEPT ![i] = fb])
    /\ InitCommon

\* async_setup after its loop over the blocks ended with r
setup_after_loop(r) ==
    /\ constructions' = r.cons
    /\ IF r.k = "raise"
       THEN /\ setup' = [status |-> "raised", exc |-> "ValueError",
                         logs |-> r.logs]
            /\ UNCHANGED discovery
       ELSE \E loadOk \in BOOLEAN :
               /\ discovery' = load_entities(r.entities, loadOk).calls
               /\ setup' = [status |-> "returned", ret |-> TRUE,
                            logs |-> r.logs \cup load_entities(r.entities, loadOk).logs]

\* async_setup
AsyncSetup ==
    /\ setup.status = "pending"
    /\ IF DOMAIN_NAME \notin DOMAIN hass_config
       THEN /\ setup' = [status |-> "returned", ret |-> TRUE, logs |-> {}]
            /\ UNCHANGED <<constructions, discovery>>
       ELSE setup_after_loop(setup_blocks(hass_config[DOMAIN_NAME], hostState, 1))
    /\ UNCHANGED <<hass_config, hostState, lastOp>>

\* the host state the templates read changes
HostStateChange ==
    /\ \E hs \in HostStates \ {hostState} : hostState' = hs
    /\ UNCHANGED <<hass_config, setup, constructions, discovery, lastOp>>

\* the host reads an accessor of adapter i
Read(i, name, res) ==
    /\ setup.status = "returned"
    /\ lastOp' = [op |-> "read", ent |-> i, name |-> name, hs |-> hostState,
                  res |-> res,
                  prev |-> IF lastOp.op = "read" /\ lastOp.ent = i
                              /\ lastOp.name = name
                           THEN [has |-> TRUE, hs |-> lastOp.hs, res |-> lastOp.res]
                           ELSE [has |-> FALSE]]
    /\ UNCHANGED <<hass_config, hostState, setup, constructions, discovery>>

\* a read that answers from the previous read when there is one
ReadInstalledVersionCached(i) ==
    Read(i, "installed_version",
         IF lastOp.op = "read" /\ lastOp.ent = i /\ lastOp.name = "installed_version"
         THEN lastOp.res ELSE installed_version(Registered[i], hostState))

ReadInstalledVersion(i) ==
    Read(i, "installed_version", installed_version(Registered[i], hostState))

ReadLatestVersion(i) ==
    Read(i, "latest_version", latest_version(Registered[i], hostState))

ReadReleaseNotes(i) ==
    Read(i, "release_notes", release_notes(Registered[i], hostState))

ReadTitle(i) == Read(i, "title", title(Registered[i], hostState))

ReadEntityPicture(i) ==
    Read(i, "entity_picture", entity_picture(Registered[i], hostState))

ReadAvailable(i) == Read(i, "available", available(Registered[i], hostState))

\* the arguments the host installs with: version, should_backup, **kwargs
Extra == Dict2("extra", StrV(<<"x">>), "channel", StrV(<<"beta">>))
InstallArgs ==
    {<<NoneV, TRUE, EmptyDict>>, <<StrV(V2), FALSE, EmptyDict>>,
     <<StrV(V2), TRUE, Dict1("backup", BoolV(FALSE))>>,
     <<StrV(V2), TRUE, Extra>>, <<NoneV, FALSE, Extra>>}

\* async_install on adapter i with the outcome r
Installed(i, args, r) ==
    lastOp' = [op |-> "install", ent |-> i, hs |-> hostState,
               version |-> args[1], should_backup |-> args[2],
               kwargs |-> args[3], res |-> r.res, calls |-> r.calls]

\* the host calls async_install on adapter i
Install(i) ==
    /\ setup.status = "returned"
    /\ \E args \in InstallArgs, callOk \in BOOLEAN :
          Installed(i, args, async_install(Registered[i], args[1], args[2],
                                           args[3], hostState, callOk))
    /\ UNCHANGED <<hass_config, hostState, setup, constructions, discovery>>

Next ==
    \/ AsyncSetup
    \/ HostStateChange
    \/ \E i \in DOMAIN Registered : ReadInstalledVersion(i)
    \/ \E i \in DOMAIN Registered : ReadLatestVersion(i)
    \/ \E i \in DOMAIN Registered : ReadReleaseNotes(i)
    \/ \E i \in DOMAIN Registered : ReadTitle(i)
    \/ \E i \in DOMAIN Registered : ReadEntityPicture(i)
    \/ \E i \in DOMAIN Registered : ReadAvailable(i)
    \/ \E i \in DOMAIN Registered : Install(i)

Spec == Init /\ [][Next]_vars

NextSetup == AsyncSetup

SetupSpec == InitSetup /\ [][NextSetup]_vars

\* Definitions the properties share

\* the adapter the last operation was made on
OpEntity == Registered[lastOp.ent]

\* the stored template an accessor renders
StoredTemplate(self, name) ==
    CASE name = "installed_version" -> self.installed_version_template
      [] name = "latest_version" -> self.latest_version_template
      [] name = "release_notes" -> self.release_notes_template
      [] name = "title" -> self.title_template
      [] name = "entity_picture" -> self.entity_pic_template
      [] name = "available" -> self.availability_template

DotCount(s) == Cardinality({i \in DOMAIN s : s[i] = "."})

\* the install-action identifier as rendered for the last install
RenderedAction ==
    render_template(OpEntity.config[CONF_INSTALL_ACTION].d["action"], lastOp.hs)

\* the install-action data as rendered for the last install
RenderedData ==
    IF "data" \in DOMAIN OpEntity.config[CONF_INSTALL_ACTION].d
    THEN render_dict_templates(OpEntity.config[CONF_INSTALL_ACTION].d["data"],
                               lastOp.hs).d
    ELSE EmptyDict

\* C1: async_install never raises to the host: whatever the configuration,
\* the arguments and the outcomes of the renderer and of the service
\* dispatcher, the call returns normally.
C1_InstallNeverRaises ==
    lastOp.op = "install" => lastOp.res.k = "return"

\* C2: when the rendered action identifier does not contain exactly one dot
\* (none, or two or more), async_install dispatches no service call.
C2_NoDispatchUnlessOneDot ==
    (/\ lastOp.op = "install"
     /\ CONF_INSTALL_ACTION \in DOMAIN OpEntity.config
     /\ RenderedAction.t = "str"
     /\ DotCount(RenderedAction.s) # 1)
    => lastOp.calls = <<>>

\* C3: reads never raise to the host: every accessor returns, and when the
\* rendering of its stored template fails it logs and returns None (False
\* for available).
C3_ReadsNeverRaise ==
    lastOp.op = "read" =>
        /\ lastOp.res.k = "return"
        /\ (/\ StoredTemplate(OpEntity, lastOp.name) # NoneV
            /\ async_render(StoredTemplate(OpEntity, lastOp.name).s, lastOp.hs,
                            NoVars).k = "raise")
           => /\ lastOp.res.v = IF lastOp.name = "available" THEN BoolV(FALSE)
                                ELSE NoneV
              /\ "exception" \in lastOp.res.logs

\* a configuration lacks one of the fields the schema requires
RequiredMissing(config) ==
    \E key \in {CONF_NAME, CONF_INSTALLED_VERSION, CONF_LATEST_VERSION} :
        key \notin DOMAIN config

\* C4: the construction of an entity fails exactly when its configuration
\* lacks name, installed_version or latest_version.
C4_ConstructionFailsIffRequiredMissing ==
    \A n \in DOMAIN constructions :
        (constructions[n].k = "raise") <=> RequiredMissing(constructions[n].config)

\* C5: a field of a for_each template that fails to render is left out and
\* nothing is raised: the setup is not aborted.
C5_RenderFailureNotFatal ==
    setup.status # "pending" =>
        /\ setup.status = "returned"
        /\ \A n \in DOMAIN constructions : constructions[n].k = "ok"

\* Definitions the properties of the for_each expansion share

Blocks == IF DOMAIN_NAME \in DOMAIN hass_config THEN hass_config[DOMAIN_NAME]
          ELSE <<>>

IsForEach(b) == CONF_FOR_EACH \in DOMAIN Blocks[b]
ElementsOf(b) == Blocks[b][CONF_FOR_EACH][CONF_ELEMENTS]
UpdateOf(b) == Blocks[b][CONF_FOR_EACH][CONF_UPDATE]

\* the constructions of block b, in the order they were made
ConstructionsOf(b) ==
    LET OfBlock(c) == c.block = b IN SelectSeq(constructions, OfBlock)

\* the value the host's renderer gives field key of block b for element i
FieldRender(b, i, key) ==
    async_render(UpdateOf(b)[key].s, hostState,
                 [v \in {"item"} |-> ElementsOf(b)[i]])

FieldRendered(b, i, key) ==
    FieldRender(b, i, key).k = "ok" /\ FieldRender(b, i, key).v # NoneV

\* the loop of async_setup reached block b: no earlier block raised
BlockReached(b) ==
    \A n \in DOMAIN constructions :
        constructions[n].k = "raise" => constructions[n].block >= b

\* the elements of block b whose installed_version or latest_version is
\* not rendered
Unversioned(b) ==
    {i \in DOMAIN ElementsOf(b) :
        \/ ~FieldRendered(b, i, CONF_INSTALLED_VERSION)
        \/ ~FieldRendered(b, i, CONF_LATEST_VERSION)}

\* the i-th construction of block b is made of element i alone: every
\* string field that renders is there as rendered for element i, a string
\* field that does not render is left out (the name then being synthesized
\* from the element's device_id, when it has one), every other field is
\* copied
MadeOfElement(b, i) ==
    LET c == ConstructionsOf(b)[i]
        u == UpdateOf(b)
        item == ElementsOf(b)[i]
    IN /\ c.item = i
       /\ \A key \in DOMAIN u :
            IF u[key].t # "str"
            THEN key \in DOMAIN c.config /\ c.config[key] = u[key]
            ELSE IF FieldRendered(b, i, key)
            THEN key \in DOMAIN c.config /\ c.config[key] = FieldRender(b, i, key).v
            ELSE IF key = CONF_NAME /\ PyTruthy(DictGet(item, "device_id"))
            THEN /\ key \in DOMAIN c.config
                 /\ c.config[key] =
                        StrV(DOMAIN_NAME \o <<"_">> \o item["device_id"].s)
            ELSE key \notin DOMAIN c.config

C7_VersionReadsAreFresh ==
    lastOp.op = "read" /\ lastOp.name \in {"installed_version", "latest_version"} =>
        /\ async_render(StoredTemplate(OpEntity, lastOp.name).s, lastOp.hs,
                        NoVars).k = "ok"
           => lastOp.res =
                Return(StrV(async_render(StoredTemplate(OpEntity, lastOp.name).s,
                                         lastOp.hs, NoVars).v.s), {})
        /\ lastOp.prev.has /\ lastOp.prev.hs = lastOp.hs
           => lastOp.prev.res = lastOp.res

\* C7 witness: a read of installed_version that follows a read of it on another host
\* state, each returning the state it was made on
C7_Witness ==
    /\ lastOp.op = "read"
    /\ lastOp.name = "installed_version"
    /\ lastOp.prev.has
    /\ lastOp.prev.hs # lastOp.hs
    /\ lastOp.prev.res = Return(StrV(lastOp.prev.hs), {})
    /\ lastOp.res = Return(StrV(lastOp.hs), {})

\* C8: an adapter has the install and specific-version features exactly
\* when its configuration has an install_action, and async_install on an
\* adapter without one dispatches no service call, whatever its arguments.
C8_InstallFlagsAgreeWithDispatch ==
    /\ \A i \in DOMAIN Registered :
          IF CONF_INSTALL_ACTION \in DOMAIN Registered[i].config
          THEN {INSTALL, SPECIFIC_VERSION}
                  \subseteq Registered[i].attr_supported_features
          ELSE {INSTALL, SPECIFIC_VERSION}
                  \cap Registered[i].attr_supported_features = {}
    /\ (/\ lastOp.op = "install"
        /\ INSTALL \notin OpEntity.attr_supported_features)
       => lastOp.calls = <<>> /\ lastOp.res.k = "return"

\* C8 witness: an install with a version and extra parameters on an adapter configured
\* without install_action
C8_Witness ==
    /\ lastOp.op = "install"
    /\ CONF_INSTALL_ACTION \notin DOMAIN OpEntity.config
    /\ lastOp.version # NoneV
    /\ lastOp.kwargs # EmptyDict
    /\ lastOp.calls = <<>>
    /\ OpEntity.attr_supported_features \cap {INSTALL, SPECIFIC_VERSION} = {}

\* C9: one run of async_setup makes exactly one discovery call, carrying
\* every adapter made in configuration order, when an adapter was made, and
\* none otherwise; when the discovery call fails the failure is logged and
\* async_setup returns True.
C9_OneDiscoveryCallPerSetup ==
    setup.status # "pending" =>
        LET Made(c) == c.k = "ok"
            made == SelectSeq(constructions, Made)
        IN /\ made # <<>> =>
                /\ Len(discovery) = 1
                /\ Len(discovery[1].entities) = Len(made)
                /\ \A i \in DOMAIN made :
                      discovery[1].entities[i].config = made[i].config
           /\ made = <<>> => discovery = <<>>
           /\ discovery # <<>> /\ ~discovery[1].ok =>
                /\ setup.status = "returned"
                /\ setup.ret
                /\ "exception" \in setup.logs

\* C10: an install that dispatches dispatches one call, whose payload has
\* every key of {version, backup}, of the extra parameters and of the
\* rendered install-action data, the rendered data winning over the extra
\* parameters, and these over version and backup.
C10_PayloadMerge ==
    lastOp.op = "install" /\ lastOp.calls # <<>> =>
        /\ Len(lastOp.calls) = 1
        /\ DOMAIN lastOp.calls[1].data =
              {"version", "backup"} \cup DOMAIN lastOp.kwargs \cup DOMAIN RenderedData
        /\ \A key \in DOMAIN lastOp.calls[1].data :
              lastOp.calls[1].data[key] =
                 IF key \in DOMAIN RenderedData THEN RenderedData[key]
                 ELSE IF key \in DOMAIN lastOp.kwargs THEN lastOp.kwargs[key]
                 ELSE IF key = "version" THEN lastOp.version
                 ELSE BoolV(lastOp.should_backup)

\* C10 witness: a dispatched install whose rendered data has the keys version and extra,
\* called with another version and with an extra parameter named extra
C10_Witness ==
    /\ lastOp.op = "install"
    /\ Len(lastOp.calls) = 1
    /\ {"version", "extra"} \subseteq DOMAIN RenderedData
    /\ "extra" \in DOMAIN lastOp.kwargs
    /\ lastOp.version # NoneV
    /\ lastOp.calls[1].data["version"] = StrV(lastOp.hs)
    /\ lastOp.calls[1].data["version"] # lastOp.version
    /\ lastOp.calls[1].data["extra"] # lastOp.kwargs["extra"]
    /\ lastOp.calls[1].data["channel"] = lastOp.kwargs["channel"]

====
